---- MODULE Spec2Model ----
(***************************************************************************)
(* The phone / one-time-passcode sign-in form of                           *)
(* src/app/[language]/sign-in/page-content.tsx: the component state of     *)
(* Form(), the react-hook-form state it drives, the countdown effect, the  *)
(* four handlers and the calls they leave in flight.                       *)
(***************************************************************************)
EXTENDS Integers, Sequences, FiniteSets, Bags, TLC

(* ----------------------------- bounds ---------------------------------- *)

\* longest phone string the user types
MaxPhoneLen == 11

\* resend calls that may be awaiting their response at the same time
MaxResendsInFlight == 2

(* ------------------------- program constants --------------------------- *)

\* .min(10, ...) of the phone rule
MinPhoneLen == 10

\* setCountdown(30) of handleRequestOtp
RequestCountdown == 30

\* setCountdown(30) of handleResendOtp
ResendCountdown == 30

(* ------------------------------ inputs --------------------------------- *)

Digits == {"0", "1", "2", "3", "4", "5", "6", "7", "8", "9"}

Rep(c, n) == [i \in 1..n |-> c]

PhoneLens == {0, MinPhoneLen - 1, MinPhoneLen, MaxPhoneLen}

\* phones the user may type: digit strings, and strings of the minimum
\* length that end in a letter or start with "+"
PhoneInputs ==
    {Rep("5", n) : n \in PhoneLens}
    \cup {Rep("5", MinPhoneLen - 1) \o <<"a">>, <<"+">> \o Rep("5", MinPhoneLen - 1)}

FullNameInputs == {"", "Jane Doe"}

OtpInputs == {"", "123456"}

\* what a call to the API can come back with: a status, or a rejection
Statuses == {"OK", "UNPROCESSABLE_ENTITY", "INTERNAL_SERVER_ERROR"}

Outcomes == Statuses \cup {"throw"}

Fields == {"fullName", "phone", "otp"}

NoErrors == [f \in Fields |-> "none"]

(* ------------------------------ state ---------------------------------- *)

VARIABLES
    isSubmitting,   \* useState(false)
    isOtpSent,      \* useState(false)
    countdown,      \* useState(0)
    timer,          \* the pending setTimeouts of the countdown effect: the countdown each captured
    mounted,        \* the component is mounted
    values,         \* react-hook-form: the field values
    errors,         \* react-hook-form: formState.errors, "none" where a field has none
    isSubmitted,    \* react-hook-form: formState.isSubmitted
    reqCall,        \* requestOtp call of handleRequestOtp awaiting its response: <<>> or <<payload>>
    verCall,        \* verifyOtp call of onSubmit awaiting its response: <<>> or <<payload>>
    resendCalls,    \* requestOtp calls of handleResendOtp awaiting their response: a bag of payloads
    session,        \* what setTokensInfo / setUser stored: <<>> or <<session>>
    otpPhone,       \* the phone of the latest requestOtp of handleRequestOtp that came back OK: <<>> or <<phone>>
    last            \* the step just taken: [ev, out, note]

comp == <<isSubmitting, isOtpSent, countdown, values, errors, isSubmitted>>
calls == <<reqCall, verCall, resendCalls>>
vars == <<isSubmitting, isOtpSent, countdown, timer, mounted, values, errors, isSubmitted,
          reqCall, verCall, resendCalls, session, otpPhone, last>>

\* the component and form state as one value
Cur ==
    [isSubmitting |-> isSubmitting, isOtpSent |-> isOtpSent, countdown |-> countdown,
     values |-> values, errors |-> errors, isSubmitted |-> isSubmitted]

Ev(e, o, n) == [ev |-> e, out |-> o, note |-> n]

(* ---------------------------- validation ------------------------------- *)

\* the pattern without its anchors, /\d+/
MatchesDigits_Unanchored(p) == \E i \in 1..Len(p) : p[i] \in Digits

\* /^\d+$/
MatchesDigits(p) == Len(p) >= 1 /\ \A i \in 1..Len(p) : p[i] \in Digits

\* the phone rule of both schemas: required, min(10), matches(/^\d+$/)
PhoneRule(p) ==
    IF Len(p) = 0 THEN "required"
    ELSE IF Len(p) < MinPhoneLen THEN "length"
    ELSE IF ~MatchesDigits(p) THEN "numeric"
    ELSE "none"

requestOtpSchema(v) ==
    [fullName |-> "none", phone |-> PhoneRule(v.phone), otp |-> "none"]

\* the second-step schema with otp left optional
verifyOtpSchema_OtpOptional(v) ==
    [fullName |-> "none", phone |-> PhoneRule(v.phone), otp |-> "none"]

verifyOtpSchema(v) ==
    [fullName |-> "none", phone |-> PhoneRule(v.phone),
     otp |-> IF v.otp = "" THEN "required" ELSE "none"]

useValidationSchema(sent, v) ==
    IF sent THEN verifyOtpSchema(v) ELSE requestOtpSchema(v)

(* --------------------------- react-hook-form --------------------------- *)

\* trigger(names) with a resolver: the schema runs on the whole form and the
\* errors of the named fields are set or unset; the other fields keep theirs
trigger(s, names) ==
    LET res == useValidationSchema(s.isOtpSent, s.values)
    IN  [s EXCEPT !.errors = [f \in Fields |-> IF f \in names THEN res[f] ELSE s.errors[f]]]

triggerValid(s, names) ==
    \A f \in names : useValidationSchema(s.isOtpSent, s.values)[f] = "none"

\* a field's onChange: the value is stored; once the form has been submitted
\* (reValidateMode onChange) the field is validated again
onChange(s, f, v) ==
    LET vals == [s.values EXCEPT ![f] = v]
        res  == useValidationSchema(s.isOtpSent, vals)
    IN  [s EXCEPT !.values = vals,
                  !.errors = IF s.isSubmitted THEN [s.errors EXCEPT ![f] = res[f]] ELSE s.errors]

(* --------------------------- countdown effect -------------------------- *)

\* the effect body without its early return at countdown <= 0
useEffect_NoGuard(c) == {c}

\* the effect body returning early at countdown <= 1
useEffect_OffByOne(c) == IF c <= 1 THEN {} ELSE {c}

\* the body of useEffect(..., [countdown]): nothing at countdown <= 0, else
\* one timeout that captures the countdown it was scheduled for
useEffect(c) == IF c <= 0 THEN {} ELSE {c}

\* the effect returning no cleanup
useEffectCleanup_None(c) == {}

\* the cleanup the effect returned when it ran for countdown c:
\* clearTimeout of the timeout it scheduled (none at c <= 0)
useEffectCleanup(c) == IF c <= 0 THEN {} ELSE {c}

\* a render commits the new component state; when countdown changed, the
\* cleanup of the previous run and then the body run. ts: the timeouts
\* pending before the render
CommitWith(s, ts) ==
    /\ isSubmitting' = s.isSubmitting
    /\ isOtpSent' = s.isOtpSent
    /\ countdown' = s.countdown
    /\ values' = s.values
    /\ errors' = s.errors
    /\ isSubmitted' = s.isSubmitted
    /\ timer' = IF s.countdown = countdown THEN ts
                ELSE (ts \ useEffectCleanup(countdown)) \cup useEffect(s.countdown)

Commit(s) == CommitWith(s, timer)

\* the state setters of a continuation: a render while mounted, nothing on
\* an unmounted component
Settle(s) ==
    IF mounted THEN Commit(s) ELSE UNCHANGED <<comp, timer>>

(* ------------------------------ handlers ------------------------------- *)

\* payload of handleRequestOtp and handleResendOtp
requestPayload(v) ==
    IF v.fullName # "" THEN [phone |-> v.phone, fullName |-> v.fullName]
    ELSE [phone |-> v.phone]

\* handleRequestOtp up to the await of requestOtp
handleRequestOtpStart(s) ==
    LET t == trigger(s, {"phone", "fullName"})
    IN  IF triggerValid(s, {"phone", "fullName"})
        THEN [t EXCEPT !.isSubmitting = TRUE]
        ELSE t

\* handleRequestOtp whose success branch leaves out setCountdown(30)
handleRequestOtpDone_NoCountdown(s, outcome) ==
    IF outcome = "OK"
    THEN [s EXCEPT !.isOtpSent = TRUE, !.isSubmitting = FALSE]
    ELSE IF outcome \in Statuses
    THEN [s EXCEPT !.errors = [s.errors EXCEPT !.phone = "otpResentFailed"],
                   !.isSubmitting = FALSE]
    ELSE [s EXCEPT !.isSubmitting = FALSE]

\* handleRequestOtp with setIsSubmiting(false) after the try body instead of
\* in a finally
handleRequestOtpDone_NoFinally(s, outcome) ==
    IF outcome = "OK"
    THEN [s EXCEPT !.isOtpSent = TRUE, !.countdown = RequestCountdown, !.isSubmitting = FALSE]
    ELSE IF outcome \in Statuses
    THEN [s EXCEPT !.errors = [s.errors EXCEPT !.phone = "otpResentFailed"],
                   !.isSubmitting = FALSE]
    ELSE s

\* handleRequestOtp that moves on whenever a status came back
handleRequestOtpDone_AnyStatus(s, outcome) ==
    IF outcome \in Statuses
    THEN [s EXCEPT !.isOtpSent = TRUE, !.countdown = RequestCountdown, !.isSubmitting = FALSE]
    ELSE [s EXCEPT !.isSubmitting = FALSE]

\* handleRequestOtp after the await: the try body and the finally
handleRequestOtpDone(s, outcome) ==
    IF outcome = "OK"
    THEN [s EXCEPT !.isOtpSent = TRUE, !.countdown = RequestCountdown, !.isSubmitting = FALSE]
    ELSE IF outcome \in Statuses
    THEN [s EXCEPT !.errors = [s.errors EXCEPT !.phone = "otpResentFailed"],
                   !.isSubmitting = FALSE]
    ELSE [s EXCEPT !.isSubmitting = FALSE]

handleRequestOtpNote(outcome) ==
    IF outcome = "OK" THEN "success:otpSent" ELSE "none"

\* onSubmit = handleSubmit(...): the resolver runs on the whole form; the
\* callback runs up to the await of verifyOtp when the form is valid
onSubmitValid(s) ==
    \A f \in Fields : useValidationSchema(s.isOtpSent, s.values)[f] = "none"

onSubmitStart(s) ==
    IF onSubmitValid(s)
    THEN [s EXCEPT !.errors = NoErrors, !.isSubmitting = TRUE]
    ELSE [s EXCEPT !.errors = useValidationSchema(s.isOtpSent, s.values),
                   !.isSubmitted = TRUE]

\* onSubmit whose UNPROCESSABLE_ENTITY branch leaves out setIsSubmiting(false)
onSubmitDone_StuckOnUnprocessable(s, outcome) ==
    IF outcome = "UNPROCESSABLE_ENTITY"
    THEN [s EXCEPT !.errors = [s.errors EXCEPT !.otp = "wrongOTP"],
                   !.isSubmitted = TRUE]
    ELSE IF outcome = "OK"
    THEN [s EXCEPT !.isSubmitting = FALSE, !.isSubmitted = TRUE]
    ELSE [s EXCEPT !.isSubmitted = TRUE]

\* onSubmit after the await, then handleSubmit's isSubmitted
onSubmitDone(s, outcome) ==
    IF outcome = "UNPROCESSABLE_ENTITY"
    THEN [s EXCEPT !.isSubmitting = FALSE,
                   !.errors = [s.errors EXCEPT !.otp = "wrongOTP"],
                   !.isSubmitted = TRUE]
    ELSE IF outcome = "OK"
    THEN [s EXCEPT !.isSubmitting = FALSE, !.isSubmitted = TRUE]
    ELSE [s EXCEPT !.isSubmitted = TRUE]

onSubmitNote(outcome) ==
    IF outcome = "OK" THEN "success:success" ELSE "none"

\* data of an OK verifyOtp response
VerifyData ==
    [token |-> "token", refreshToken |-> "refreshToken",
     tokenExpires |-> "tokenExpires", user |-> "user"]

\* onSubmit that stores the session whenever a response came back
onSubmitSession_AnyStatus(outcome, data, old) ==
    IF outcome \in Statuses
    THEN <<[tokensInfo |-> [token |-> data.token, refreshToken |-> data.refreshToken,
                            tokenExpires |-> data.tokenExpires],
            user |-> data.user]>>
    ELSE old

\* setTokensInfo(...) and setUser(data.user)
onSubmitSession(outcome, data, old) ==
    IF outcome = "OK"
    THEN <<[tokensInfo |-> [token |-> data.token, refreshToken |-> data.refreshToken,
                            tokenExpires |-> data.tokenExpires],
            user |-> data.user]>>
    ELSE old

\* handleResendOtp that also shows the OTP step when the call came back OK
handleResendOtpDone_ShowsOtpStep(s, outcome) ==
    IF outcome = "OK" THEN [s EXCEPT !.countdown = ResendCountdown, !.isOtpSent = TRUE]
    ELSE IF outcome \in Statuses THEN [s EXCEPT !.countdown = ResendCountdown]
    ELSE s

\* handleResendOtp after the await
handleResendOtpDone(s, outcome) ==
    IF outcome \in Statuses THEN [s EXCEPT !.countdown = ResendCountdown] ELSE s

handleResendOtpNote(outcome) ==
    IF outcome = "OK" THEN "success:otpResent"
    ELSE IF outcome \in Statuses THEN "error:serverError"
    ELSE "none"

\* handleBack that leaves out setCountdown(0)
handleBack_KeepCountdown(s) ==
    [s EXCEPT !.isOtpSent = FALSE,
              !.values = [fullName |-> s.values.fullName, phone |-> s.values.phone, otp |-> ""],
              !.errors = NoErrors,
              !.isSubmitted = FALSE]

\* handleBack whose reset keeps the errors (reset(values, {keepErrors: true}))
handleBack_KeepErrors(s) ==
    [s EXCEPT !.isOtpSent = FALSE,
              !.countdown = 0,
              !.values = [fullName |-> s.values.fullName, phone |-> s.values.phone, otp |-> ""],
              !.isSubmitted = FALSE]

\* handleBack; reset(values) also clears the errors and isSubmitted
handleBack(s) ==
    [s EXCEPT !.isOtpSent = FALSE,
              !.countdown = 0,
              !.values = [fullName |-> s.values.fullName, phone |-> s.values.phone, otp |-> ""],
              !.errors = NoErrors,
              !.isSubmitted = FALSE]

(* ------------------------- controls as rendered ------------------------ *)

\* the phone input disabled by isSubmitting alone
phoneDisabled_OnlySubmitting(s) == s.isSubmitting

\* disabled of the phone input
phoneDisabled(s) == s.isOtpSent \/ s.isSubmitting

\* the otp input is rendered in the second step, the fullName input in the first
otpDisabled(s) == s.isSubmitting
fullNameDisabled(s) == s.isOtpSent \/ s.isSubmitting

\* send-otp-submit: disabled / loading
sendOtpDisabled(s) == s.isSubmitting

\* back-button: no disabled prop; a loading button is disabled
backDisabled(s) == s.isSubmitting

\* sign-in-submit
verifyDisabled(s) == s.isSubmitting

\* resend-otp disabled by isSubmitting alone
resendDisabled_NoCountdown(s) == s.isSubmitting

\* resend-otp
resendDisabled(s) == s.countdown > 0 \/ s.isSubmitting

(* ------------------------------- Init ---------------------------------- *)

Init ==
    /\ isSubmitting = FALSE
    /\ isOtpSent = FALSE
    /\ countdown = 0
    /\ timer = useEffect(0)
    /\ mounted = TRUE
    /\ values = [fullName |-> "", phone |-> <<>>, otp |-> ""]
    /\ errors = NoErrors
    /\ isSubmitted = FALSE
    /\ reqCall = <<>>
    /\ verCall = <<>>
    /\ resendCalls = EmptyBag
    /\ session = <<>>
    /\ otpPhone = <<>>
    /\ last = Ev("init", "none", "none")

(* ------------------------------ actions -------------------------------- *)

\* the user types into the phone input
EditPhone(p) ==
    /\ mounted
    /\ ~phoneDisabled(Cur)
    /\ Commit(onChange(Cur, "phone", p))
    /\ last' = Ev("edit", "phone", "none")
    /\ UNCHANGED <<calls, session, otpPhone, mounted>>

\* the user types into the fullName input (rendered while no OTP was sent)
EditFullName(n) ==
    /\ mounted
    /\ ~isOtpSent
    /\ ~fullNameDisabled(Cur)
    /\ Commit(onChange(Cur, "fullName", n))
    /\ last' = Ev("edit", "fullName", "none")
    /\ UNCHANGED <<calls, session, otpPhone, mounted>>

\* the user types into the otp input (rendered once the OTP was sent)
EditOtp(o) ==
    /\ mounted
    /\ isOtpSent
    /\ ~otpDisabled(Cur)
    /\ Commit(onChange(Cur, "otp", o))
    /\ last' = Ev("edit", "otp", "none")
    /\ UNCHANGED <<calls, session, otpPhone, mounted>>

\* a click on send-otp-submit: nothing when disabled, else handleRequestOtp
\* up to its await
ClickSendOtp ==
    /\ mounted
    /\ ~isOtpSent
    /\ IF sendOtpDisabled(Cur)
       THEN /\ last' = Ev("sendOtp", "disabled", "none")
            /\ UNCHANGED <<comp, timer, calls, session, otpPhone, mounted>>
       ELSE /\ Commit(handleRequestOtpStart(Cur))
            /\ IF triggerValid(Cur, {"phone", "fullName"})
               THEN /\ reqCall' = <<requestPayload(values)>>
                    /\ last' = Ev("sendOtp", "called", "none")
               ELSE /\ reqCall' = reqCall
                    /\ last' = Ev("sendOtp", "invalid", "none")
            /\ UNCHANGED <<verCall, resendCalls, session, otpPhone, mounted>>

\* requestOtp of handleRequestOtp settles
RequestOtpDone(outcome) ==
    /\ reqCall # <<>>
    /\ reqCall' = <<>>
    /\ Settle(handleRequestOtpDone(Cur, outcome))
    /\ otpPhone' = IF outcome = "OK" THEN <<reqCall[1].phone>> ELSE otpPhone
    /\ last' = Ev("sendOtpDone", outcome, handleRequestOtpNote(outcome))
    /\ UNCHANGED <<verCall, resendCalls, session, mounted>>

\* the form is submitted through sign-in-submit: nothing when disabled, else
\* onSubmit up to its await
ClickVerify ==
    /\ mounted
    /\ isOtpSent
    /\ IF verifyDisabled(Cur)
       THEN /\ last' = Ev("verify", "disabled", "none")
            /\ UNCHANGED <<comp, timer, calls, session, otpPhone, mounted>>
       ELSE /\ Commit(onSubmitStart(Cur))
            /\ IF onSubmitValid(Cur)
               THEN /\ verCall' = <<[phone |-> values.phone, otp |-> values.otp]>>
                    /\ last' = Ev("verify", "called", "none")
               ELSE /\ verCall' = verCall
                    /\ last' = Ev("verify", "invalid", "none")
            /\ UNCHANGED <<reqCall, resendCalls, session, otpPhone, mounted>>

\* verifyOtp settles
VerifyOtpDone(outcome) ==
    /\ verCall # <<>>
    /\ verCall' = <<>>
    /\ Settle(onSubmitDone(Cur, outcome))
    /\ session' = onSubmitSession(outcome, VerifyData, session)
    /\ last' = Ev("verifyDone", outcome, onSubmitNote(outcome))
    /\ UNCHANGED <<reqCall, resendCalls, otpPhone, mounted>>

\* a click on resend-otp: nothing when disabled, else handleResendOtp up to
\* its await
ClickResend ==
    /\ mounted
    /\ isOtpSent
    /\ IF resendDisabled(Cur)
       THEN /\ last' = Ev("resend", "disabled", "none")
            /\ UNCHANGED <<comp, timer, calls, session, otpPhone, mounted>>
       ELSE /\ BagCardinality(resendCalls) < MaxResendsInFlight
            /\ resendCalls' = resendCalls (+) SetToBag({requestPayload(values)})
            /\ last' = Ev("resend", "called", "none")
            /\ UNCHANGED <<comp, timer, reqCall, verCall, session, otpPhone, mounted>>

\* requestOtp of a handleResendOtp settles
ResendOtpDone(c, outcome) ==
    /\ BagIn(c, resendCalls)
    /\ resendCalls' = resendCalls (-) SetToBag({c})
    /\ Settle(handleResendOtpDone(Cur, outcome))
    /\ last' = Ev("resendDone", outcome, handleResendOtpNote(outcome))
    /\ UNCHANGED <<reqCall, verCall, session, otpPhone, mounted>>

\* a click on back-button: nothing when disabled, else handleBack
ClickBack ==
    /\ mounted
    /\ isOtpSent
    /\ IF backDisabled(Cur)
       THEN /\ last' = Ev("back", "disabled", "none")
            /\ UNCHANGED <<comp, timer, calls, session, otpPhone, mounted>>
       ELSE /\ Commit(handleBack(Cur))
            /\ last' = Ev("back", "done", "none")
            /\ UNCHANGED <<calls, session, otpPhone, mounted>>

\* a pending timeout of the countdown effect fires: setCountdown(countdown - 1)
\* with the countdown it captured
Tick(c) ==
    /\ c \in timer
    /\ IF mounted
       THEN CommitWith([Cur EXCEPT !.countdown = c - 1], timer \ {c})
       ELSE /\ timer' = timer \ {c}
            /\ UNCHANGED comp
    /\ last' = Ev("tick", "none", "none")
    /\ UNCHANGED <<calls, session, otpPhone, mounted>>

\* the flow is torn down: the component unmounts and the cleanup of the
\* countdown effect runs
Unmount ==
    /\ mounted
    /\ mounted' = FALSE
    /\ timer' = timer \ useEffectCleanup(countdown)
    /\ last' = Ev("unmount", "none", "none")
    /\ UNCHANGED <<comp, calls, session, otpPhone>>

Next ==
    \/ \E p \in PhoneInputs : EditPhone(p)
    \/ \E n \in FullNameInputs : EditFullName(n)
    \/ \E o \in OtpInputs : EditOtp(o)
    \/ ClickSendOtp
    \/ \E outcome \in Outcomes : RequestOtpDone(outcome)
    \/ ClickVerify
    \/ \E outcome \in Outcomes : VerifyOtpDone(outcome)
    \/ ClickResend
    \/ \E c \in BagToSet(resendCalls), outcome \in Outcomes : ResendOtpDone(c, outcome)
    \/ ClickBack
    \/ \E c \in timer : Tick(c)
    \/ Unmount

Spec == Init /\ [][Next]_vars

\* a scheduled timeout that is not cleared fires
FairSpec == Spec /\ WF_vars(\E c \in timer : Tick(c))

(* ------------------------------ claims --------------------------------- *)

\* calls awaiting their response
InFlight == Len(reqCall) + Len(verCall) + BagCardinality(resendCalls)

FieldsInError == {f \in Fields : errors[f] # "none"}

\* ^\d{10,}$
MatchesTenDigits(p) == Len(p) >= 10 /\ \A i \in 1..Len(p) : p[i] \in Digits

\* C1: once verifyOtp has settled (any status, or a rejection) isSubmitting is
\* false again.
C1_VerifyReleasesSubmitting ==
    (mounted /\ last.ev = "verifyDone") => isSubmitting = FALSE

\* C2: at most one request / verify / resend call is in flight, and Back is
\* not performed while a call is in flight.
C2_OneCallInFlight ==
    /\ InFlight <= 1
    /\ (last.ev = "back" /\ last.out = "done") => InFlight = 0

\* C3: when requestOtp of handleRequestOtp comes back OK, the OTP step is
\* shown, the countdown is 30, isSubmitting is false and the success
\* notification was emitted.
C3_RequestSuccess ==
    (mounted /\ last.ev = "sendOtpDone" /\ last.out = "OK") =>
        /\ isOtpSent = TRUE
        /\ countdown = 30
        /\ isSubmitting = FALSE
        /\ last.note = "success:otpSent"

C3_Witness ==
    /\ mounted
    /\ last.ev = "sendOtpDone" /\ last.out = "OK"
    /\ values.fullName = "Jane Doe"
    /\ Len(values.phone) = 10

\* C4: a click on resend while countdown > 0 issues no requestOtp call and
\* leaves the countdown as it is; in the OTP step with countdown 0 and
\* isSubmitting false the click issues the call.
C4_ResendGate ==
    [][ last'.ev = "resend" =>
          /\ countdown > 0 =>
                /\ last'.out = "disabled"
                /\ calls' = calls
                /\ countdown' = countdown
          /\ (isOtpSent /\ countdown = 0 /\ ~isSubmitting) =>
                /\ last'.out = "called"
                /\ resendCalls' = resendCalls (+) SetToBag({requestPayload(values)})
      ]_vars

C4_Witness ==
    last.ev = "resend" /\ last.out = "disabled" /\ countdown = 5 /\ ~isSubmitting

\* C5: when verifyOtp comes back UNPROCESSABLE_ENTITY the OTP step is still
\* shown, the only field in error is otp, with the wrong-code error, and
\* isSubmitting is false, so the form can be submitted again.
C5_VerifyUnprocessable ==
    (mounted /\ last.ev = "verifyDone" /\ last.out = "UNPROCESSABLE_ENTITY") =>
        /\ isOtpSent = TRUE
        /\ FieldsInError = {"otp"}
        /\ errors.otp = "wrongOTP"
        /\ isSubmitting = FALSE
        /\ ~verifyDisabled(Cur)

C5_Witness ==
    /\ mounted
    /\ last.ev = "verifyDone" /\ last.out = "UNPROCESSABLE_ENTITY"
    /\ values.otp = "123456"

\* C6: Back in the OTP step gives the first step, countdown 0 and otp "",
\* keeps phone and fullName, issues and settles no call, and applying
\* handleBack to the state it left changes nothing.
C6_Back ==
    [][ (last'.ev = "back" /\ last'.out = "done") =>
          /\ isOtpSent = TRUE
          /\ isOtpSent' = FALSE
          /\ countdown' = 0
          /\ values'.otp = ""
          /\ values'.phone = values.phone
          /\ values'.fullName = values.fullName
          /\ calls' = calls
          /\ handleBack(Cur') = Cur'
          /\ timer' = useEffect(handleBack(Cur').countdown)
      ]_vars

C6_Witness ==
    /\ last.ev = "back" /\ last.out = "done"
    /\ values.fullName = "Jane Doe"
    /\ BagCardinality(resendCalls) > 0

\* C7: a click on send with a phone that does not match ^\d{10,}$ fails the
\* validation, issues no requestOtp call and leaves isOtpSent, countdown and
\* isSubmitting as they are.
C7_InvalidPhoneNoCall ==
    [][ (last'.ev = "sendOtp" /\ ~MatchesTenDigits(values.phone)) =>
          /\ last'.out \in {"invalid", "disabled"}
          /\ last'.out = "invalid" => errors'.phone # "none"
          /\ calls' = calls
          /\ isOtpSent' = isOtpSent
          /\ countdown' = countdown
          /\ isSubmitting' = isSubmitting
      ]_vars

C7_Witness ==
    /\ last.ev = "sendOtp" /\ last.out = "invalid"
    /\ Len(values.phone) = 10
    /\ errors.phone = "numeric"

\* C8: once requestOtp of handleRequestOtp has settled (OK, another status,
\* or a rejection) isSubmitting is false again.
C8_RequestReleasesSubmitting ==
    (mounted /\ last.ev = "sendOtpDone") => isSubmitting = FALSE

C8_Witness ==
    mounted /\ last.ev = "sendOtpDone" /\ last.out = "throw"

\* C9: when requestOtp of handleRequestOtp comes back with a status other
\* than OK, phone gets a field error, the first step stays shown and the
\* countdown is not changed.
C9_RequestFailure ==
    [][ (mounted /\ last'.ev = "sendOtpDone" /\ last'.out \in Statuses \ {"OK"}) =>
          /\ errors'.phone = "otpResentFailed"
          /\ isOtpSent = FALSE
          /\ isOtpSent' = FALSE
          /\ countdown' = countdown
      ]_vars

C9_Witness ==
    /\ mounted
    /\ last.ev = "sendOtpDone" /\ last.out = "INTERNAL_SERVER_ERROR"
    /\ errors.phone = "otpResentFailed"
    /\ isOtpSent = FALSE

\* C10: once requestOtp of a handleResendOtp has settled, whatever the
\* outcome, the countdown is 30.
C10_ResendResetsCountdown ==
    (mounted /\ last.ev = "resendDone") => countdown = 30

\* the session an OK verifyOtp response is stored as
StoredSession ==
    <<[tokensInfo |-> [token |-> VerifyData.token, refreshToken |-> VerifyData.refreshToken,
                       tokenExpires |-> VerifyData.tokenExpires],
       user |-> VerifyData.user]>>

\* C11: the session is stored exactly when verifyOtp comes back OK: that
\* step stores the returned tokens and user, emits the success notification
\* and sets isSubmitting false; no session is stored at the start and no
\* other step (another verify outcome, send, resend, Back, edit, tick)
\* writes the session.
C11_SessionOnlyOnOk ==
    /\ [](last.ev = "init" => session = <<>>)
    /\ [][ IF last'.ev = "verifyDone" /\ last'.out = "OK"
           THEN /\ session' = StoredSession
                /\ last'.note = "success:success"
                /\ mounted => isSubmitting' = FALSE
           ELSE session' = session
         ]_vars

C11_Witness ==
    /\ mounted
    /\ last.ev = "verifyDone" /\ last.out = "OK"
    /\ session = StoredSession
    /\ isSubmitting = FALSE

\* C12: the first step is shown initially, and the only step that moves
\* from the first step to the OTP step is requestOtp of handleRequestOtp
\* coming back OK.
C12_OtpStepOnlyAfterRequestOk ==
    /\ [](last.ev = "init" => isOtpSent = FALSE)
    /\ [][ (~isOtpSent /\ isOtpSent') =>
             (last'.ev = "sendOtpDone" /\ last'.out = "OK") ]_vars

C12_Witness ==
    /\ mounted
    /\ last.ev = "sendOtpDone" /\ last.out = "OK"
    /\ isOtpSent = TRUE
    /\ BagCardinality(resendCalls) > 0

\* the steps of the verify operation write neither countdown nor the values
VerifyStepsFrame ==
    [][ last'.ev \in {"verify", "verifyDone"} =>
          (countdown' = countdown /\ values' = values) ]_vars

\* C13: a verify operation leaves countdown and the field values as they
\* were: its own steps write neither, and from its call to its response the
\* values stay and the countdown is changed by timer ticks only.
C13_VerifyLeavesCountdown ==
    [][ /\ last'.ev \in {"verify", "verifyDone"} =>
              (countdown' = countdown /\ values' = values)
        /\ (mounted /\ verCall # <<>>) =>
              /\ values' = values
              /\ countdown' # countdown => last'.ev = "tick"
      ]_vars

\* C14: countdown is always within 0..30; while the form is mounted a
\* timeout is pending exactly when countdown > 0; a tick happens only at
\* countdown > 0 and lowers it by exactly 1.
C14_CountdownRange ==
    /\ [](countdown \in 0..30)
    /\ [](mounted => (timer # {} <=> countdown > 0))
    /\ [][ last'.ev = "tick" =>
             (countdown > 0 /\ countdown' = countdown - 1) ]_vars

C14_Witness ==
    /\ mounted
    /\ last.ev = "tick"
    /\ countdown = 0
    /\ isOtpSent = FALSE
    /\ BagCardinality(resendCalls) > 0

\* C15: at most one timeout is pending; none is pending at countdown 0 or
\* once the form is unmounted; and a step that changes countdown leaves no
\* timeout pending but the one scheduled for the new countdown.
C15_OneTimer ==
    /\ [](Cardinality(timer) <= 1)
    /\ [](countdown = 0 => timer = {})
    /\ [](~mounted => timer = {})
    /\ [][ countdown' # countdown => timer' \subseteq {countdown'} ]_vars

C15_Witness ==
    /\ ~mounted
    /\ last.ev = "unmount"
    /\ countdown = 5
    /\ timer = {}

\* C16: a submit with an empty otp or an invalid phone issues no verifyOtp
\* call, does not set isSubmitting and keeps the step; verifyOtp is called
\* only from the OTP step with a non-empty otp.
C16_InvalidVerifyNoCall ==
    [][ /\ (last'.ev = "verify" /\ (values.otp = "" \/ ~MatchesTenDigits(values.phone))) =>
              /\ last'.out \in {"invalid", "disabled"}
              /\ calls' = calls
              /\ isSubmitting' = isSubmitting
              /\ isOtpSent' = isOtpSent
        /\ (verCall' # verCall /\ verCall' # <<>>) =>
              /\ isOtpSent
              /\ values.otp # ""
              /\ verCall'[1].otp = values.otp
      ]_vars

C16_Witness ==
    /\ last.ev = "verify" /\ last.out = "invalid"
    /\ values.otp = ""
    /\ errors.otp = "required"
    /\ isSubmitting = FALSE
    /\ verCall = <<>>

\* C17: otp is required exactly in the OTP step, and a step that switches
\* between the first step and the OTP step leaves no field error: no otp
\* error is shown in the first step and no phone error in the OTP step.
C17_NoStaleErrors ==
    /\ [](~isOtpSent => errors.otp = "none")
    /\ [](isOtpSent => errors.phone = "none")
    /\ [][ isOtpSent' # isOtpSent =>
             /\ errors' = NoErrors
             /\ \A o \in OtpInputs :
                  (useValidationSchema(isOtpSent', [values' EXCEPT !.otp = o]).otp # "none")
                      <=> (isOtpSent' /\ o = "")
         ]_vars

C17_Witness ==
    /\ mounted
    /\ last.ev = "back" /\ last.out = "done"
    /\ errors = NoErrors
    /\ isSubmitted = FALSE
    /\ session # <<>>

\* C18: while the first step is shown the countdown is 0.
C18_FirstStepCountdownZero ==
    (mounted /\ ~isOtpSent) => countdown = 0

\* C19: the phone value changes only in the first step while isSubmitting
\* is false, and the phone passed to verifyOtp and to requestOtp of a resend
\* is the phone of the latest handleRequestOtp call that came back OK.
C19_PhoneOfOtp ==
    [][ /\ values'.phone # values.phone => (~isOtpSent /\ ~isSubmitting)
        /\ (verCall' # verCall /\ verCall' # <<>>) => <<verCall'[1].phone>> = otpPhone
        /\ (last'.ev = "resend" /\ last'.out = "called") =>
              /\ <<requestPayload(values).phone>> = otpPhone
              /\ resendCalls' = resendCalls (+) SetToBag({requestPayload(values)})
      ]_vars

C19_Witness ==
    /\ last.ev = "resend" /\ last.out = "called"
    /\ otpPhone = <<values.phone>>
    /\ Len(values.phone) > MinPhoneLen
    /\ \E c \in BagToSet(resendCalls) : c.phone = values.phone

====
